---- MODULE Spec2Model ----
(***************************************************************************)
(* Model of the command dispatcher of src/py.py: UserStore, the command    *)
(* registry, Dispatcher.run / Dispatcher._execute_as and the built-in      *)
(* command handlers.                                                       *)
(*                                                                         *)
(* A Python str is a sequence of items.  An item is either the blank " ",  *)
(* a quote character, or a chunk: a run of characters that contains        *)
(* neither.  String concatenation is \o, f-strings are concatenations.     *)
(* Python's None / Optional is a tuple of length 0 (None) or 1 (a value).  *)
(* A dict whose key order is observable (UserStore.users) is a sequence of *)
(* entries in insertion order; Dispatcher.sessions is a set of entries.    *)
(***************************************************************************)
EXTENDS Integers, Sequences, FiniteSets, TLC

VARIABLES
    users,      \* UserStore.users, the store in memory
    disk,       \* the content of users.json
    sessions,   \* Dispatcher.sessions
    now,        \* the clock read by time.time()
    call,       \* the latest call of Dispatcher.run: its arguments, the state
                \* it started from, and what it returned, invoked and logged
    threads     \* the calls of Dispatcher.run that threads are in the middle
                \* of: where each one is and its local variables

vars == <<users, disk, sessions, now, call, threads>>

(***************************************************************************)
(* Strings                                                                 *)
(***************************************************************************)
SP == " "
QT == "\""

AP == "'"

S(w) == <<w>>

None == <<>>

Some(x) == <<x>>

RECURSIVE Join(_)
\* ' '.join(parts)
Join(parts) ==
    IF parts = <<>> THEN <<>>
    ELSE IF Len(parts) = 1 THEN parts[1]
    ELSE parts[1] \o <<SP>> \o Join(Tail(parts))

RECURSIVE JoinComma(_)
\* ', '.join(names)
JoinComma(names) ==
    IF names = <<>> THEN <<>>
    ELSE IF Len(names) = 1 THEN names[1]
    ELSE names[1] \o <<",", SP>> \o JoinComma(Tail(names))

RECURSIVE Scan(_, _, _, _, _)
\* The scanner of shlex.split: whitespace ends a token; a quote character
\* opens a quoted stretch that the same character closes, in which
\* whitespace and the other quote character belong to the token; an opened
\* quote starts a token even when nothing follows in it.
\*   s      the rest of the line        parts  the tokens finished so far
\*   tok    the token being read        intok  a token has been started
\*   q      the quote character of the open quoted stretch, "" outside one
Scan(s, parts, tok, intok, q) ==
    IF s = <<>>
      THEN IF q # "" THEN [ok |-> FALSE, parts |-> <<>>]
           ELSE [ok |-> TRUE,
                 parts |-> IF intok THEN Append(parts, tok) ELSE parts]
    ELSE LET c == Head(s)
             r == Tail(s)
         IN  IF q # ""
               THEN IF c = q THEN Scan(r, parts, tok, TRUE, "")
                    ELSE Scan(r, parts, Append(tok, c), TRUE, q)
             ELSE IF c = QT \/ c = AP THEN Scan(r, parts, tok, TRUE, c)
             ELSE IF c = SP
               THEN IF intok THEN Scan(r, Append(parts, tok), <<>>, FALSE, "")
                    ELSE Scan(r, parts, <<>>, FALSE, "")
             ELSE Scan(r, parts, Append(tok, c), TRUE, "")

\* ShlexSplit that starts inside a token, as str.split(' ') does
ShlexSplit_StartsInToken(line) == Scan(line, <<>>, <<>>, TRUE, "")

\* shlex.split(cmdline): ok = FALSE stands for ValueError("No closing quotation")
ShlexSplit(line) == Scan(line, <<>>, <<>>, FALSE, "")

RECURSIVE Strip(_)
\* str.strip() as int() applies it to its argument
Strip(t) ==
    IF t = <<>> THEN t
    ELSE IF Head(t) = SP THEN Strip(Tail(t))
    ELSE IF t[Len(t)] = SP THEN Strip(SubSeq(t, 1, Len(t) - 1))
    ELSE t

\* int(token) that gives 0 for what is no number
IntOf_ZeroOnFailure(t) ==
    IF Strip(t) \in {S("0"), S("1"), S("2")}
      THEN [ok |-> TRUE, val |-> CHOOSE n \in 0..2 : Strip(t) = <<ToString(n)>>]
    ELSE IF Strip(t) = S("-1") THEN [ok |-> TRUE, val |-> 0 - 1]
    ELSE [ok |-> TRUE, val |-> 0]

\* int(token): ok = FALSE stands for ValueError
IntOf(t) ==
    LET u == Strip(t)
    IN  IF u = S("0") THEN [ok |-> TRUE, val |-> 0]
        ELSE IF u = S("1") THEN [ok |-> TRUE, val |-> 1]
        ELSE IF u = S("2") THEN [ok |-> TRUE, val |-> 2]
        ELSE IF u = S("-1") THEN [ok |-> TRUE, val |-> 0 - 1]
        ELSE [ok |-> FALSE, val |-> 0]

(***************************************************************************)
(* UserStore                                                               *)
(***************************************************************************)
\* an exception raised by open() / json.dump in UserStore.save
OSError == S("OSError: cannot write users.json")

\* username in self.users
HasUser(us, username) == \E i \in 1..Len(us) : us[i].name = username

\* self.users.get that answers with the first record for a name it does not have
GetUser_First(us, username) ==
    IF HasUser(us, username)
      THEN Some(us[CHOOSE i \in 1..Len(us) : us[i].name = username])
    ELSE IF us = <<>> THEN None ELSE Some(us[1])

\* self.users.get(username): None or the user's record
GetUser(us, username) ==
    IF HasUser(us, username)
      THEN Some(us[CHOOSE i \in 1..Len(us) : us[i].name = username])
    ELSE None

\* hashlib.sha256(x).hexdigest(): the digest names its input, so that two
\* digests are equal exactly when the inputs are
Sha256(x) == S("sha256(") \o x \o S(")")

\* hash_password that digests the salt alone
hash_password_SaltOnly(plain, salt) == salt \o S("$") \o Sha256(salt)

\* hash_password(plain, salt): salt is os.urandom(16).hex() when not given
hash_password(plain, salt) == salt \o S("$") \o Sha256(plain \o salt)

\* hp.split('$')[0]
SaltOf(hp) == SubSeq(hp, 1, (CHOOSE i \in 1..Len(hp) : hp[i] = "$" /\ \A j \in 1..(i - 1) : hp[j] # "$") - 1)

\* UserStore.save: the whole store is written to the file; io = FALSE is a
\* write that fails, which raises and leaves the file as it was
save(us, dk, io) ==
    IF io THEN [users |-> us, disk |-> us, exc |-> None]
    ELSE [users |-> us, disk |-> dk, exc |-> Some(OSError)]

\* UserStore.ensure_user
ensure_user(us, dk, username, io) ==
    IF ~HasUser(us, username)
      THEN save(Append(us, [name |-> username, perms |-> <<>>, password |-> None]), dk, io)
    ELSE [users |-> us, disk |-> dk, exc |-> None]

\* self.users[username]['password'] = hash_password(plain); self.save()
\* e is what ensure_user left: nothing more happens when it raised
StorePassword(e, username, plain, salt, io) ==
    IF e.exc # None THEN e
    ELSE save([i \in 1..Len(e.users) |->
                  IF e.users[i].name = username
                    THEN [e.users[i] EXCEPT !.password = Some(hash_password(plain, salt))]
                  ELSE e.users[i]],
              e.disk, io)

\* UserStore.set_password
set_password(us, dk, username, plain, salt, io) ==
    StorePassword(ensure_user(us, dk, username, io), username, plain, salt, io)

\* UserStore.check_password
check_password(us, username, plain) ==
    \E u \in {GetUser(us, username)} :
        IF u = None THEN FALSE
        ELSE IF u[1].password = None THEN FALSE
        ELSE hash_password(plain, SaltOf(u[1].password[1])) = u[1].password[1]

\* perm in self.users[username]['perms']
InList(l, x) == \E i \in 1..Len(l) : l[i] = x

\* list.remove that drops the head of the list, whatever x is
ListRemove_DropsHead(l, x) == Tail(l)

\* list.remove(x): drops the first occurrence
ListRemove(l, x) ==
    LET k == CHOOSE i \in 1..Len(l) : l[i] = x /\ \A j \in 1..(i - 1) : l[j] # x
    IN  SubSeq(l, 1, k - 1) \o SubSeq(l, k + 1, Len(l))

\* AppendPerm that appends without looking whether the permission is there
AppendPerm_Always(e, username, perm, io) ==
    IF e.exc # None THEN e
    ELSE save([i \in 1..Len(e.users) |->
                  IF e.users[i].name = username
                    THEN [e.users[i] EXCEPT !.perms = Append(e.users[i].perms, perm)]
                  ELSE e.users[i]],
              e.disk, io)

\* if perm not in self.users[username]['perms']: append it; self.save()
\* e is what ensure_user left: nothing more happens when it raised
AppendPerm(e, username, perm, io) ==
    IF e.exc # None THEN e
    ELSE IF \E i \in 1..Len(e.users) :
                e.users[i].name = username /\ ~InList(e.users[i].perms, perm)
      THEN save([i \in 1..Len(e.users) |->
                    IF e.users[i].name = username
                      THEN [e.users[i] EXCEPT !.perms = Append(e.users[i].perms, perm)]
                    ELSE e.users[i]],
                e.disk, io)
    ELSE e

\* UserStore.add_perm
add_perm(us, dk, username, perm, io) ==
    AppendPerm(ensure_user(us, dk, username, io), username, perm, io)

\* if perm in self.users[username]['perms']: remove it; self.save()
\* e is what ensure_user left: nothing more happens when it raised
DropPerm(e, username, perm, io) ==
    IF e.exc # None THEN e
    ELSE IF \E i \in 1..Len(e.users) :
                e.users[i].name = username /\ InList(e.users[i].perms, perm)
      THEN save([i \in 1..Len(e.users) |->
                    IF e.users[i].name = username
                      THEN [e.users[i] EXCEPT !.perms = ListRemove(e.users[i].perms, perm)]
                    ELSE e.users[i]],
                e.disk, io)
    ELSE e

\* UserStore.remove_perm
remove_perm(us, dk, username, perm, io) ==
    DropPerm(ensure_user(us, dk, username, io), username, perm, io)

\* has_perm that looks for the permission itself only
has_perm_NoWildcard(us, username, perm) ==
    \E u \in {GetUser(us, username)} :
        IF u = None THEN FALSE ELSE InList(u[1].perms, perm)

\* UserStore.has_perm
has_perm(us, username, perm) ==
    \E u \in {GetUser(us, username)} :
        IF u = None THEN FALSE
        ELSE InList(u[1].perms, S("*")) \/ InList(u[1].perms, perm)

\* UserStore.list_users
list_users(us) == [i \in 1..Len(us) |-> us[i].name]

\* UserStore.list_perms
list_perms(us, username) ==
    LET u == GetUser(us, username)
    IN  IF u = None THEN <<>> ELSE u[1].perms

(***************************************************************************)
(* CommandRegistry                                                         *)
(***************************************************************************)
\* CommandRegistry.register: insert, or replace in place
register(cmds, name, fn, perm) ==
    IF \E i \in 1..Len(cmds) : cmds[i].name = name
      THEN [i \in 1..Len(cmds) |->
               IF cmds[i].name = name
                 THEN [name |-> name, fn |-> fn, perm |-> perm]
               ELSE cmds[i]]
    ELSE Append(cmds, [name |-> name, fn |-> fn, perm |-> perm])

\* registry_get that answers with the first entry when the name is missing
registry_get_FallsBack(cmds, name) ==
    IF \E i \in 1..Len(cmds) : cmds[i].name = name
      THEN Some(cmds[CHOOSE i \in 1..Len(cmds) : cmds[i].name = name])
    ELSE Some(cmds[1])

\* CommandRegistry.get: None or the entry
registry_get(cmds, name) ==
    IF \E i \in 1..Len(cmds) : cmds[i].name = name
      THEN Some(cmds[CHOOSE i \in 1..Len(cmds) : cmds[i].name = name])
    ELSE None

\* CommandRegistry.all_commands
all_commands(cmds) == [i \in 1..Len(cmds) |-> cmds[i].name]

\* the registry once the @command decorators of the module have run
DecoratedRegistry ==
    LET r1  == register(<<>>, S("grant"), "cmd_grant", Some(S("grant")))
        r2  == register(r1, S("revoke"), "cmd_revoke", Some(S("grant")))
        r3  == register(r2, S("whoami"), "cmd_whoami", None)
        r4  == register(r3, S("say"), "cmd_say", Some(S("say")))
        r5  == register(r4, S("echo"), "cmd_echo", None)
        r6  == register(r5, S("list_users"), "cmd_list_users", Some(S("admin")))
        r7  == register(r6, S("list_perms"), "cmd_list_perms", Some(S("admin")))
        r8  == register(r7, S("create_user"), "cmd_create_user", Some(S("admin")))
        r9  == register(r8, S("change_password"), "cmd_change_password", Some(S("admin")))
        r10 == register(r9, S("add_perm"), "cmd_add_perm", Some(S("admin")))
        r11 == register(r10, S("remove_perm"), "cmd_remove_perm", Some(S("admin")))
    IN  register(r11, S("list_commands"), "cmd_list_commands", None)

\* the registry the dispatcher reads: BotCreatorOS.__init__ registers the
\* application's commands and registers the built-in ones again
registry ==
    LET r1  == register(DecoratedRegistry, S("list_bots"), "cmd_list_bots", Some(S("view")))
        r2  == register(r1, S("reload_bots"), "cmd_reload_bots", Some(S("admin")))
        r3  == register(r2, S("whoami"), "cmd_whoami", None)
        r4  == register(r3, S("grant"), "cmd_grant", Some(S("admin")))
        r5  == register(r4, S("revoke"), "cmd_revoke", Some(S("admin")))
        r6  == register(r5, S("say"), "cmd_say", Some(S("say")))
        r7  == register(r6, S("echo"), "cmd_echo", None)
        r8  == register(r7, S("list_users"), "cmd_list_users", Some(S("admin")))
        r9  == register(r8, S("list_perms"), "cmd_list_perms", Some(S("admin")))
        r10 == register(r9, S("create_user"), "cmd_create_user", Some(S("admin")))
        r11 == register(r10, S("change_password"), "cmd_change_password", Some(S("admin")))
        r12 == register(r11, S("add_perm"), "cmd_add_perm", Some(S("admin")))
        r13 == register(r12, S("remove_perm"), "cmd_remove_perm", Some(S("admin")))
    IN  register(r13, S("list_commands"), "cmd_list_commands", None)

(***************************************************************************)
(* Command handlers.  A handler gets the store, ctx.user and its positional *)
(* arguments and yields the store it leaves, and either the string it       *)
(* returns (exc = None) or the message of the exception it raises.          *)
(***************************************************************************)
Returns(us, dk, ret) == [users |-> us, disk |-> dk, exc |-> None, ret |-> ret]

Raises(us, dk, msg) == [users |-> us, disk |-> dk, exc |-> Some(msg), ret |-> <<>>]

\* a store call made by a handler, then the handler's return statement
Then(e, ret) ==
    IF e.exc # None THEN Raises(e.users, e.disk, e.exc[1])
    ELSE Returns(e.users, e.disk, ret)

\* the number of positional parameters after ctx: least and most (-1: *words)
Arity(fn) ==
    CASE fn \in {"cmd_grant", "cmd_revoke", "cmd_change_password",
                 "cmd_add_perm", "cmd_remove_perm"} -> <<2, 2>>
      [] fn \in {"cmd_list_perms", "cmd_create_user"} -> <<1, 1>>
      [] fn \in {"cmd_say", "cmd_echo"} -> <<0, 0 - 1>>
      [] OTHER -> <<0, 0>>

\* the TypeError of a call with the wrong number of arguments
TypeError(fn) == <<fn, "()", SP, "wrong number of positional arguments">>

\* self.reload_all_bots is not defined
AttributeError == S("'BotCreatorOS' object has no attribute 'reload_all_bots'")

cmd_grant(us, dk, user, args, io) ==
    Then(add_perm(us, dk, args[1], args[2], io),
         user \o <<SP, "granted", SP, "'">> \o args[2] \o <<"'", SP, "to", SP>> \o args[1])

cmd_revoke(us, dk, user, args, io) ==
    Then(remove_perm(us, dk, args[1], args[2], io),
         user \o <<SP, "revoked", SP, "'">> \o args[2] \o <<"'", SP, "from", SP>> \o args[1])

cmd_whoami(us, dk, user) == Returns(us, dk, <<"you", SP, "are", SP>> \o user)

cmd_say(us, dk, user, args) == Returns(us, dk, user \o <<SP, "says:", SP>> \o Join(args))

cmd_echo(us, dk, args) == Returns(us, dk, Join(args))

cmd_list_users(us, dk) == Returns(us, dk, JoinComma(list_users(us)))

cmd_list_perms(us, dk, args) == Returns(us, dk, JoinComma(list_perms(us, args[1])))

cmd_create_user(us, dk, args, io) ==
    Then(ensure_user(us, dk, args[1], io),
         <<"user", SP, "'">> \o args[1] \o <<"'", SP, "created">>)

\* cmd_change_password without the look at change_others_password
cmd_change_password_AnyTarget(us, dk, user, args, salt, io) ==
    Then(set_password(us, dk, args[1], args[2], salt, io),
         <<"password", SP, "changed", SP, "for", SP>> \o args[1])

cmd_change_password(us, dk, user, args, salt, io) ==
    IF args[1] # user /\ ~has_perm(us, user, S("change_others_password"))
      THEN Returns(us, dk, <<"no", SP, "permission", SP, "to", SP, "change", SP, "others", "'", SP, "password">>)
    ELSE Then(set_password(us, dk, args[1], args[2], salt, io),
              <<"password", SP, "changed", SP, "for", SP>> \o args[1])

cmd_add_perm(us, dk, args, io) ==
    Then(add_perm(us, dk, args[1], args[2], io),
         <<"added", SP, "'">> \o args[2] \o <<"'", SP, "to", SP>> \o args[1])

cmd_remove_perm(us, dk, args, io) ==
    Then(remove_perm(us, dk, args[1], args[2], io),
         <<"removed", SP, "'">> \o args[2] \o <<"'", SP, "from", SP>> \o args[1])

cmd_list_commands(us, dk) == Returns(us, dk, JoinComma(all_commands(registry)))

\* BotCreatorOS.loaded_bots stays empty
cmd_list_bots(us, dk) == Returns(us, dk, JoinComma(<<>>))

cmd_reload_bots(us, dk) == Raises(us, dk, AttributeError)

\* entry['fn'](ctx, *args)
CallHandler(fn, us, dk, user, args, salt, io) ==
    IF Len(args) < Arity(fn)[1] \/ (Arity(fn)[2] >= 0 /\ Len(args) > Arity(fn)[2])
      THEN Raises(us, dk, TypeError(fn))
    ELSE CASE fn = "cmd_grant" -> cmd_grant(us, dk, user, args, io)
           [] fn = "cmd_revoke" -> cmd_revoke(us, dk, user, args, io)
           [] fn = "cmd_whoami" -> cmd_whoami(us, dk, user)
           [] fn = "cmd_say" -> cmd_say(us, dk, user, args)
           [] fn = "cmd_echo" -> cmd_echo(us, dk, args)
           [] fn = "cmd_list_users" -> cmd_list_users(us, dk)
           [] fn = "cmd_list_perms" -> cmd_list_perms(us, dk, args)
           [] fn = "cmd_create_user" -> cmd_create_user(us, dk, args, io)
           [] fn = "cmd_change_password" -> cmd_change_password(us, dk, user, args, salt, io)
           [] fn = "cmd_add_perm" -> cmd_add_perm(us, dk, args, io)
           [] fn = "cmd_remove_perm" -> cmd_remove_perm(us, dk, args, io)
           [] fn = "cmd_list_commands" -> cmd_list_commands(us, dk)
           [] fn = "cmd_list_bots" -> cmd_list_bots(us, dk)
           [] fn = "cmd_reload_bots" -> cmd_reload_bots(us, dk)

(***************************************************************************)
(* Dispatcher                                                              *)
(***************************************************************************)
\* the ValueError of shlex.split on a line with an unclosed quote
ValueError == S("No closing quotation")

\* ttl = 300
DefaultTTL == 300

\* one line of sudo_audit.log
LogLine(level, msg) == [level |-> level, msg |-> msg]

\* sessions_get that looks the name up among the targets
sessions_get_ByTarget(ss, inv) ==
    IF \E e \in ss : e.session.target = inv
      THEN Some((CHOOSE e \in ss : e.session.target = inv).session)
    ELSE None

\* sessions_get that goes on from the target of the invoker's session to the
\* session that the target holds
sessions_get_Chained(ss, inv) ==
    IF \E e \in ss : e.invoker = inv
      THEN IF \E f \in ss : f.invoker = (CHOOSE e \in ss : e.invoker = inv).session.target
             THEN Some((CHOOSE f \in ss :
                          f.invoker = (CHOOSE e \in ss : e.invoker = inv).session.target).session)
           ELSE Some((CHOOSE e \in ss : e.invoker = inv).session)
    ELSE None

\* self.sessions.get(invoker): None or the (target, expires) pair
sessions_get(ss, inv) ==
    IF \E e \in ss : e.invoker = inv
      THEN Some((CHOOSE e \in ss : e.invoker = inv).session)
    ELSE None

\* sessions_set that leaves the new entry alone in the map
sessions_set_Sole(ss, inv, target, expires) ==
    {[invoker |-> inv, session |-> [target |-> target, expires |-> expires]]}

\* sessions_set that adds the entry and keeps the one the invoker had
sessions_set_KeepOld(ss, inv, target, expires) ==
    ss \cup {[invoker |-> inv, session |-> [target |-> target, expires |-> expires]]}

\* self.sessions[invoker] = (target, expires)
sessions_set(ss, inv, target, expires) ==
    {e \in ss : e.invoker # inv}
        \cup {[invoker |-> inv, session |-> [target |-> target, expires |-> expires]]}

\* sessions_del that empties the map
sessions_del_All(ss, inv) == {}

\* del self.sessions[invoker]
sessions_del(ss, inv) == {e \in ss : e.invoker # inv}

\* what a call leaves behind: the exception it raises (None: it returns),
\* the string it returns, the store and the sessions, the user the command
\* line was executed as, the handler call made, the exception raised inside
\* the handler, the lines logged
Outcome(exc, res, us, dk, ss, as, inv, flt, lg) ==
    [raised |-> exc, result |-> res, users |-> us, disk |-> dk, sessions |-> ss,
     acting |-> as, invoked |-> inv, fault |-> flt, logged |-> lg]

\* PermissionMissing that stops only the users the store does not know
PermissionMissing_UnknownOnly(us, target_user, required) ==
    required # None /\ ~HasUser(us, target_user)

\* PermissionMissing without the check: every acting user passes
PermissionMissing_NoCheck(us, target_user, required) == FALSE

\* if required and not self.users.has_perm(target_user, required)
PermissionMissing(us, target_user, required) ==
    required # None /\ required[1] # <<>> /\ ~has_perm(us, target_user, required[1])

\* caught that lets the exception through
caught_Reraise(msg) == [raised |-> Some(msg), result |-> <<>>]

\* except Exception as e: return f"error: {e}"
caught(msg) == [raised |-> None, result |-> <<"error:", SP>> \o msg]

\* the line of the audit log that ends _execute_as, less its first words
LogTail(target_user, line, inv) ==
    <<"invoker=">> \o inv \o <<SP, "as=">> \o target_user
        \o <<SP, "cmd=", "'">> \o line \o <<"'">>

\* _execute_as from the return of the handler call on: h is what the call
\* of the handler fn left
execute_result(h, fn, args, us, dk, ss, target_user, line, inv, lg) ==
    IF h.exc = None
      THEN Outcome(None, h.ret, h.users, h.disk, ss, Some(target_user),
                   Some([fn |-> fn, user |-> target_user, args |-> args]), None,
                   Append(lg, LogLine("INFO",
                       <<"EXECUTE:", SP>> \o LogTail(target_user, line, inv)
                           \o <<SP, "->", SP, "OK">>)))
    ELSE Outcome(caught(h.exc[1]).raised, caught(h.exc[1]).result, h.users, h.disk, ss,
                 Some(target_user),
                 Some([fn |-> fn, user |-> target_user, args |-> args]), h.exc,
                 Append(lg, LogLine("ERROR",
                     <<"EXECUTE", SP, "FAILED:", SP>> \o LogTail(target_user, line, inv))))

\* execute_entry that first makes sure the store knows the acting user
execute_entry_EnsuresTarget(entry, parts, us, dk, ss, target_user, line, inv, salt, io, lg) ==
    LET e == ensure_user(us, dk, target_user, TRUE)
    IN  IF entry = None
          THEN Outcome(None, <<"unknown", SP, "command", SP, "'">> \o parts[1] \o <<"'">>,
                       e.users, e.disk, ss, Some(target_user), None, None, lg)
        ELSE IF PermissionMissing(e.users, target_user, entry[1].perm)
          THEN Outcome(None,
                       <<"user", SP, "'">> \o target_user \o <<"'", SP, "lacks", SP, "'">>
                           \o entry[1].perm[1] \o <<"'", SP, "permission">>,
                       e.users, e.disk, ss, Some(target_user), None, None, lg)
        ELSE execute_result(CallHandler(entry[1].fn, e.users, e.disk, target_user,
                                        Tail(parts), salt, io),
                            entry[1].fn, Tail(parts), e.users, e.disk, ss, target_user,
                            line, inv, lg)

\* _execute_as from the registry lookup on: entry is registry.get(name)
execute_entry(entry, parts, us, dk, ss, target_user, line, inv, salt, io, lg) ==
    IF entry = None
      THEN Outcome(None, <<"unknown", SP, "command", SP, "'">> \o parts[1] \o <<"'">>,
                   us, dk, ss, Some(target_user), None, None, lg)
    ELSE IF PermissionMissing(us, target_user, entry[1].perm)
      THEN Outcome(None,
                   <<"user", SP, "'">> \o target_user \o <<"'", SP, "lacks", SP, "'">>
                       \o entry[1].perm[1] \o <<"'", SP, "permission">>,
                   us, dk, ss, Some(target_user), None, None, lg)
    ELSE execute_result(CallHandler(entry[1].fn, us, dk, target_user, Tail(parts), salt, io),
                        entry[1].fn, Tail(parts), us, dk, ss, target_user, line, inv, lg)

\* _execute_as from the split on: sp is shlex.split(cmdline)
execute_parts(sp, us, dk, ss, target_user, line, inv, salt, io, lg) ==
    IF ~sp.ok
      THEN Outcome(Some(ValueError), <<>>, us, dk, ss, Some(target_user), None, None, lg)
    ELSE IF sp.parts = <<>>
      THEN Outcome(None, <<"no", SP, "command">>, us, dk, ss, Some(target_user),
                   None, None, lg)
    ELSE execute_entry(registry_get(registry, sp.parts[1]), sp.parts,
                       us, dk, ss, target_user, line, inv, salt, io, lg)

\* Dispatcher._execute_as(target_user, cmdline, invoker); lg holds the lines
\* that run has logged before the call, ss the sessions, which it leaves alone
execute_as(us, dk, ss, target_user, line, inv, salt, io, lg) ==
    execute_parts(ShlexSplit(line), us, dk, ss, target_user, line, inv, salt, io, lg)

\* the two usage strings of run
UsageOneShot ==
    <<"usage:", SP, "sudo", SP, "-u", SP, "<target>", SP, "<command...>">>

UsageBoth ==
    UsageOneShot \o <<SP, SP, "OR", SP, SP, "sudo", SP, "-i", SP, "-u", SP,
                      "<target>", SP, "[seconds]">>

\* the denial of run when the invoker may not elevate
SudoDenied(inv) ==
    <<"invoker", SP, "'">> \o inv \o <<"'", SP, "lacks", SP, "'", "sudo", "'", SP, "permission">>

\* str(ttl)
StrOfInt(n) ==
    CASE n = DefaultTTL -> S("300")
      [] n = 0 -> S("0")
      [] n = 1 -> S("1")
      [] n = 2 -> S("2")
      [] n = 0 - 1 -> S("-1")

\* IsSudo that takes only sudo -i for an elevation, so that a one-shot line
\* goes on to the session lookup
IsSudo_SessionFormOnly(parts) ==
    parts[1] = S("sudo") /\ Len(parts) >= 2 /\ parts[2] = S("-i")

\* if parts[0] == 'sudo'
IsSudo(parts) == parts[1] = S("sudo")

\* IsOneShot that asks for two tokens only
IsOneShot_TwoTokens(parts) == Len(parts) >= 2 /\ parts[2] = S("-u")

\* if len(parts) >= 3 and parts[1] == '-u'
IsOneShot(parts) == Len(parts) >= 3 /\ parts[2] = S("-u")

\* if len(parts) >= 4 and parts[1] == '-i' and parts[2] == '-u'
IsSessionStart(parts) == Len(parts) >= 4 /\ parts[2] = S("-i") /\ parts[3] = S("-u")

\* MayElevate that asks only whether the store knows the invoker
MayElevate_Known(us, inv) == HasUser(us, inv)

\* MayElevate without the check of the invoker
MayElevate_Always(us, inv) == TRUE

\* self.users.has_perm(invoker, 'sudo')
MayElevate(us, inv) == has_perm(us, inv, S("sudo"))

\* SessionLive that never lets a session expire
SessionLive_Always(t, expires) == TRUE

\* SessionLive with the comparison turned around
SessionLive_Inverted(t, expires) == t > expires

\* SessionLive that still counts the second of expiry
SessionLive_Inclusive(t, expires) == t <= expires

\* if time.time() < expires
SessionLive(t, expires) == t < expires

\* Dispatcher.run(invoker, cmdline) at clock value t
run(us, dk, ss, t, inv, line, salt, io) ==
    LET sp == ShlexSplit(line)
        parts == sp.parts
        \* sudo -u <target> <command...>
        command == Join(SubSeq(parts, 4, Len(parts)))
        \* sudo -i -u <target> <seconds?>
        ttl == IF Len(parts) >= 5 /\ IntOf(parts[5]).ok
                 THEN IntOf(parts[5]).val ELSE DefaultTTL
        expires == t + ttl
        sess == sessions_get(ss, inv)
    IN  IF ~sp.ok
          THEN Outcome(Some(ValueError), <<>>, us, dk, ss, None, None, None, <<>>)
        ELSE IF parts = <<>>
          THEN Outcome(None, <<"no", SP, "command">>, us, dk, ss, None, None, None, <<>>)
        ELSE IF IsSudo(parts)
          THEN IF IsOneShot(parts)
                 THEN IF Len(parts) < 4
                        THEN Outcome(None, UsageOneShot, us, dk, ss, None, None, None, <<>>)
                      ELSE IF ~MayElevate(us, inv)
                        THEN Outcome(None, SudoDenied(inv), us, dk, ss, None, None, None, <<>>)
                      ELSE execute_as(us, dk, ss, parts[3], command, inv, salt, io,
                               <<LogLine("INFO", <<"SUDO:", SP>> \o inv \o <<SP, "->", SP>>
                                     \o parts[3] \o <<":", SP>> \o command)>>)
               ELSE IF IsSessionStart(parts)
                 THEN IF ~MayElevate(us, inv)
                        THEN Outcome(None, SudoDenied(inv), us, dk, ss, None, None, None, <<>>)
                      ELSE Outcome(None,
                               <<"impersonating", SP>> \o parts[4] \o <<SP, "for", SP>>
                                   \o StrOfInt(ttl) \o <<SP, "seconds">>,
                               us, dk, sessions_set(ss, inv, parts[4], expires),
                               None, None, None,
                               <<LogLine("INFO", <<"SUDO_SESSION_START:", SP>> \o inv
                                     \o <<SP, "->", SP>> \o parts[4] \o <<SP, "for", SP>>
                                     \o StrOfInt(ttl) \o <<"s">>)>>)
               ELSE Outcome(None, UsageBoth, us, dk, ss, None, None, None, <<>>)
        ELSE IF sess # None /\ SessionLive(t, sess[1].expires)
          THEN execute_as(us, dk, ss, sess[1].target, line, inv, salt, io,
                   <<LogLine("INFO", <<"SUDO_SESSION_EXEC:", SP, "invoker=">> \o inv
                         \o <<SP, "active_as=">> \o sess[1].target
                         \o <<SP, "cmd=", "'">> \o line \o <<"'">>)>>)
        ELSE IF sess # None
          THEN execute_as(us, dk, sessions_del(ss, inv), inv, line, inv, salt, io,
                   <<LogLine("INFO", <<"SUDO_SESSION_END:", SP, "invoker=">> \o inv),
                     LogLine("INFO", <<"CMD:", SP>> \o inv \o <<":", SP>> \o line)>>)
        ELSE execute_as(us, dk, ss, inv, line, inv, salt, io,
                 <<LogLine("INFO", <<"CMD:", SP>> \o inv \o <<":", SP>> \o line)>>)

(***************************************************************************)
(* The state machine                                                       *)
(***************************************************************************)
\* the clock stops here
MaxTime == 2

\* the values os.urandom(16).hex() takes
Salts == {S("5f")}

\* a command line of the given words, one blank between them
Words(ws) == Join([i \in 1..Len(ws) |-> S(ws[i])])

\* the users that call run
Invokers == {S("alice"), S("bob")}

\* the command lines they type
PlainLines ==
    { <<>>, <<SP, SP>>,
      Words(<<"whoami">>), Words(<<"list_users">>), Words(<<"frobnicate">>),
      Words(<<"say", "hi">>), <<"echo", SP, QT, "a">>,
      Words(<<"grant", "bob">>),
      Words(<<"revoke", "alice", "sudo">>),
      Words(<<"add_perm", "bob", "admin">>) }

SudoLines ==
    { Words(<<"sudo">>), Words(<<"sudo", "-u">>), Words(<<"sudo", "-u", "bob">>),
      Words(<<"sudo", "-i", "-u">>), Words(<<"sudo", "-x", "bob", "whoami">>),
      Words(<<"sudo", "-u", "bob", "list_users">>),
      Words(<<"sudo", "-u", "carol", "whoami">>),
      Words(<<"sudo", "-u", "bob", "frobnicate">>),
      <<"sudo", SP, "-u", SP, "bob", SP, "echo", SP, QT, "a", SP, "b", QT>>,
      Words(<<"sudo", "-u", "admin", "add_perm", "bob", "admin">>),
      Words(<<"sudo", "-i", "-u", "bob">>),
      Words(<<"sudo", "-i", "-u", "carol", "1">>),
      Words(<<"sudo", "-i", "-u", "admin", "abc">>) }

CmdLines == PlainLines \cup SudoLines

\* self.user_store.ensure_user(username) on the store e, writes succeeding
EnsureIn(e, username) == ensure_user(e.users, e.disk, username, TRUE)

\* self.user_store.add_perm(username, perm) on the store e
AddPermIn(e, username, perm) == add_perm(e.users, e.disk, username, perm, TRUE)

\* if self.user_store.users['admin']['password'] is None: set_password(...)
AdminPasswordIn(e, salt) ==
    IF GetUser(e.users, S("admin"))[1].password = None
      THEN set_password(e.users, e.disk, S("admin"), S("adminpass"), salt, TRUE)
    ELSE e

\* BotCreatorOS.__init__: the default users, on a store that starts empty
DefaultUsers(salt) ==
    AddPermIn(EnsureIn(
        AddPermIn(AddPermIn(EnsureIn(
            AddPermIn(EnsureIn(
                AddPermIn(AdminPasswordIn(
                    EnsureIn([users |-> <<>>, disk |-> <<>>, exc |-> None], S("admin")),
                    salt), S("admin"), S("*")),
                S("guest")), S("guest"), S("view")),
            S("alice")), S("alice"), S("say")), S("alice"), S("sudo")),
        S("bob")), S("bob"), S("say"))

\* no call of run has been made
NoCall == [made |-> FALSE]

\* the threads that may call run at the same time
MaxThreads == 2

Threads == 1..MaxThreads

\* a thread that is not inside run
Idle ==
    [pc |-> "idle", invoker |-> <<>>, cmdline |-> <<>>, sess |-> None, live |-> TRUE,
     raised |-> None, result |-> <<>>, acting |-> None]

Init ==
    /\ \E salt \in Salts :
          \E d \in {DefaultUsers(salt)} :
              /\ users = d.users
              /\ disk = d.disk
    /\ sessions = {}
    /\ now = 0
    /\ call = NoCall
    /\ threads = [t \in Threads |-> Idle]

\* a call of Dispatcher.run; salt is the salt set_password would draw, io
\* tells whether the writes of users.json succeed
Run(inv, line, salt, io) ==
    \E o \in {run(users, disk, sessions, now, inv, line, salt, io)} :
        /\ users' = o.users
        /\ disk' = o.disk
        /\ sessions' = o.sessions
        /\ now' = now
        /\ call' = [made |-> TRUE, invoker |-> inv, cmdline |-> line,
                    at |-> now, users0 |-> users, disk0 |-> disk, sessions0 |-> sessions,
                    raised |-> o.raised, result |-> o.result, acting |-> o.acting,
                    invoked |-> o.invoked, fault |-> o.fault, logged |-> o.logged]
        /\ threads' = threads

\* time passes
Tick ==
    /\ now < MaxTime
    /\ now' = now + 1
    /\ UNCHANGED <<users, disk, sessions, call, threads>>

Next ==
    \/ \E inv \in Invokers, line \in CmdLines, salt \in Salts, io \in BOOLEAN :
          Run(inv, line, salt, io)
    \/ Tick

Spec == Init /\ [][Next]_vars

(***************************************************************************)
(* The UserStore on its own: its four mutators called one after another,   *)
(* as the handlers, BotCreatorOS.__init__ and the login dialog call them.  *)
(* call is then the latest store call: op, username and arg are what was   *)
(* called, users0 and disk0 the store and the file it started from, exc    *)
(* what it raised, n how many calls were made, prev the call before it.    *)
(***************************************************************************)
MaxOps == 3

\* usernames passed to the store: one that holds "*", one that holds a
\* permission, one that the store does not know
StoreUsers == {S("admin"), S("bob"), S("dave")}

\* permission strings passed to the store
StorePerms == {S("*"), S("say")}

\* plaintext passwords passed to the store
Plains == {S("pw1"), S("pw2")}

\* values of os.urandom(16).hex()
StoreSalts == {S("5f"), S("c3")}

\* the number of store calls made so far
OpsDone == IF call.made THEN call.n ELSE 0

\* the latest call as the next call remembers it
PrevOp ==
    IF call.made
      THEN [op |-> call.op, username |-> call.username, arg |-> call.arg, exc |-> call.exc]
    ELSE [op |-> "none", username |-> <<>>, arg |-> <<>>, exc |-> None]

\* a store call that ends as o: what it leaves in memory and in the file
StoreCall(op, username, arg, o) ==
    /\ OpsDone < MaxOps
    /\ users' = o.users
    /\ disk' = o.disk
    /\ call' = [made |-> TRUE, op |-> op, username |-> username, arg |-> arg,
                exc |-> o.exc, users0 |-> users, disk0 |-> disk,
                n |-> OpsDone + 1, prev |-> PrevOp]
    /\ UNCHANGED <<sessions, now, threads>>

EnsureUser(username, io) ==
    StoreCall("ensure_user", username, <<>>, ensure_user(users, disk, username, io))

SetPassword(username, plain, salt, io) ==
    StoreCall("set_password", username, plain,
              set_password(users, disk, username, plain, salt, io))

AddPermission(username, perm, io) ==
    StoreCall("add_perm", username, perm, add_perm(users, disk, username, perm, io))

RemovePermission(username, perm, io) ==
    StoreCall("remove_perm", username, perm, remove_perm(users, disk, username, perm, io))

StoreNext ==
    \/ \E username \in StoreUsers, io \in BOOLEAN : EnsureUser(username, io)
    \/ \E username \in StoreUsers \ {S("admin")}, plain \in Plains, salt \in StoreSalts,
          io \in BOOLEAN :
          SetPassword(username, plain, salt, io)
    \/ \E username \in StoreUsers, perm \in StorePerms, io \in BOOLEAN :
          AddPermission(username, perm, io)
    \/ \E username \in StoreUsers, perm \in StorePerms, io \in BOOLEAN :
          RemovePermission(username, perm, io)

StoreSpec == Init /\ [][StoreNext]_vars

(***************************************************************************)
(* The dispatcher given the lines that set passwords and the lines that    *)
(* hand out the permissions change_password looks at.                      *)
(***************************************************************************)
PasswordLines ==
    { Words(<<"whoami">>),
      Words(<<"change_password", "bob", "pw1">>),
      Words(<<"change_password", "alice", "pw1">>),
      Words(<<"change_password", "bob">>),
      Words(<<"sudo", "-u", "admin", "change_password", "bob", "pw2">>),
      Words(<<"sudo", "-u", "admin", "add_perm", "bob", "admin">>),
      Words(<<"sudo", "-u", "admin", "add_perm", "bob", "change_others_password">>),
      Words(<<"sudo", "-u", "admin", "create_user", "dave">>),
      Words(<<"sudo", "-i", "-u", "admin">>) }

PasswordNext ==
    \E inv \in Invokers, line \in PasswordLines, salt \in Salts, io \in BOOLEAN :
        Run(inv, line, salt, io)

PasswordSpec == Init /\ [][PasswordNext]_vars

(***************************************************************************)
(* The dispatcher given the built-in commands that write to the store:     *)
(* grant, revoke, add_perm, remove_perm, create_user and change_password,  *)
(* typed by alice and bob as themselves, as admin and in a session.        *)
(***************************************************************************)
PermissionLines ==
    { Words(<<"whoami">>),
      Words(<<"grant", "alice", "say">>),
      Words(<<"revoke", "bob", "say">>),
      Words(<<"remove_perm", "alice", "sudo">>),
      Words(<<"create_user", "dave">>),
      Words(<<"change_password", "dave", "pw1">>),
      Words(<<"add_perm", "erin", "view">>),
      Words(<<"sudo", "-u", "admin", "add_perm", "bob", "admin">>),
      Words(<<"sudo", "-i", "-u", "admin">>) }

PermissionNext ==
    \E inv \in Invokers, line \in PermissionLines, salt \in Salts, io \in BOOLEAN :
        Run(inv, line, salt, io)

PermissionSpec == Init /\ [][PermissionNext]_vars

(***************************************************************************)
(* The dispatcher given lines that it turns down: by a usage string, for   *)
(* an invoker without sudo, for a command it does not know, for an acting  *)
(* user without the permission; and lines that name a target the store     *)
(* does not know.  Time passes, so that sessions expire.                   *)
(***************************************************************************)
FailureLines ==
    { Words(<<"whoami">>),
      Words(<<"list_users">>),
      Words(<<"frobnicate">>),
      Words(<<"sudo">>),
      Words(<<"sudo", "-u", "bob">>),
      Words(<<"sudo", "-u", "bob", "list_users">>),
      Words(<<"sudo", "-u", "ghost", "whoami">>),
      Words(<<"sudo", "-u", "ghost", "frobnicate">>),
      Words(<<"sudo", "-i", "-u", "ghost">>),
      Words(<<"sudo", "-i", "-u", "bob", "1">>),
      Words(<<"sudo", "-u", "admin", "create_user", "dave">>) }

FailureNext ==
    \/ \E inv \in Invokers, line \in FailureLines, salt \in Salts, io \in BOOLEAN :
          Run(inv, line, salt, io)
    \/ Tick

FailureSpec == Init /\ [][FailureNext]_vars

(***************************************************************************)
(* Calls of run made by several threads at once.  Dispatcher has no lock,  *)
(* so between the statements of lines 192-205 another call may run: a      *)
(* thread steps from the read of the session map to the comparison with    *)
(* the clock, to the deletion, to the execution.  Sessions are installed   *)
(* by calls of run that nothing interrupts.                                *)
(***************************************************************************)
KeyError == S("KeyError")

\* del self.sessions[invoker]: raises when there is no such key
sessions_delitem(ss, inv) ==
    IF \E e \in ss : e.invoker = inv
      THEN [exc |-> None, sessions |-> sessions_del(ss, inv)]
    ELSE [exc |-> Some(KeyError), sessions |-> ss]

\* the lines the threads give to run: they are not sudo lines
ThreadLines == {Words(<<"whoami">>), Words(<<"say", "hi">>)}

\* the lines that install the sessions the threads find
SessionLines ==
    {Words(<<"sudo", "-i", "-u", "carol", "1">>), Words(<<"sudo", "-i", "-u", "bob">>)}

\* run is entered with a line that is not a sudo line: lines 156-189 do
\* nothing for it
Enter(t, inv, line) ==
    /\ threads[t].pc = "idle"
    /\ ShlexSplit(line).ok
    /\ ShlexSplit(line).parts # <<>>
    /\ ~IsSudo(ShlexSplit(line).parts)
    /\ threads' = [threads EXCEPT ![t] = [Idle EXCEPT !.pc = "get", !.invoker = inv,
                                                     !.cmdline = line]]
    /\ UNCHANGED <<users, disk, sessions, now, call>>

\* sess = self.sessions.get(invoker); if sess:
Lookup(t) ==
    /\ threads[t].pc = "get"
    /\ \E sess \in {sessions_get(sessions, threads[t].invoker)} :
           threads' = [threads EXCEPT ![t].sess = sess,
                                      ![t].pc = IF sess = None THEN "normal" ELSE "compare"]
    /\ UNCHANGED <<users, disk, sessions, now, call>>

\* if time.time() < expires:
Compare(t) ==
    /\ threads[t].pc = "compare"
    /\ \E live \in {SessionLive(now, threads[t].sess[1].expires)} :
           threads' = [threads EXCEPT ![t].live = live,
                                      ![t].pc = IF live THEN "session" ELSE "delete"]
    /\ UNCHANGED <<users, disk, sessions, now, call>>

\* del self.sessions[invoker]: the call ends here when it raises
Delete(t) ==
    /\ threads[t].pc = "delete"
    /\ \E d \in {sessions_delitem(sessions, threads[t].invoker)} :
           /\ sessions' = d.sessions
           /\ threads' = [threads EXCEPT ![t].raised = d.exc,
                                          ![t].pc = IF d.exc = None THEN "normal" ELSE "done"]
    /\ UNCHANGED <<users, disk, now, call>>

\* the call ends as o, the outcome of _execute_as
Finish(t, o) ==
    /\ users' = o.users
    /\ disk' = o.disk
    /\ threads' = [threads EXCEPT ![t].pc = "done", ![t].raised = o.raised,
                                   ![t].result = o.result, ![t].acting = o.acting]
    /\ UNCHANGED <<sessions, now, call>>

\* return self._execute_as(target, cmdline, invoker)
ExecuteInSession(t, salt, io) ==
    /\ threads[t].pc = "session"
    /\ Finish(t, execute_as(users, disk, sessions, threads[t].sess[1].target,
                            threads[t].cmdline, threads[t].invoker, salt, io, <<>>))

\* return self._execute_as(invoker, cmdline, invoker)
ExecuteAsInvoker(t, salt, io) ==
    /\ threads[t].pc = "normal"
    /\ Finish(t, execute_as(users, disk, sessions, threads[t].invoker,
                            threads[t].cmdline, threads[t].invoker, salt, io, <<>>))

ThreadNext ==
    \/ \E line \in SessionLines, salt \in Salts, io \in BOOLEAN :
          Run(S("alice"), line, salt, io)
    \/ Tick
    \/ \E t \in Threads, line \in ThreadLines : Enter(t, S("alice"), line)
    \/ \E t \in Threads : Lookup(t)
    \/ \E t \in Threads : Compare(t)
    \/ \E t \in Threads : Delete(t)
    \/ \E t \in Threads, salt \in Salts, io \in BOOLEAN : ExecuteInSession(t, salt, io)
    \/ \E t \in Threads, salt \in Salts, io \in BOOLEAN : ExecuteAsInvoker(t, salt, io)

ThreadSpec == Init /\ [][ThreadNext]_vars

(***************************************************************************)
(* The dispatcher with two invokers who may both come to hold sessions:    *)
(* bob is given sudo on the way.  The lines are those that start sessions  *)
(* with every kind of ttl, lines that name users the store does not know,  *)
(* and a sudo line inside a sudo line.  call is the latest call of run as  *)
(* before, and it carries two things the dispatcher does not keep:         *)
(* sudoers, the users who have held sudo or "*" in some state so far, and  *)
(* vouched, the invokers whose session was installed by a call at which    *)
(* they held sudo or "*".                                                  *)
(***************************************************************************)
SessionSpecLines ==
    { <<>>,
      Words(<<"whoami">>),
      Words(<<"sudo">>),
      Words(<<"sudo", "-i", "-u", "bob">>),
      Words(<<"sudo", "-i", "-u", "carol", "1">>),
      Words(<<"sudo", "-i", "-u", "bob", "0">>),
      Words(<<"sudo", "-i", "-u", "alice", "-1">>),
      Words(<<"sudo", "-u", "bob", "whoami">>),
      Words(<<"sudo", "-u", "admin", "add_perm", "bob", "sudo">>),
      Words(<<"sudo", "-u", "bob", "sudo", "-u", "carol", "whoami">>),
      Words(<<"sudo", "-u", "ghost", "list_users">>),
      Words(<<"sudo", "-u", "admin", "list_perms", "ghost">>) }

\* the users of a store who hold sudo or "*"
SudoHolders(us) == {us[i].name : i \in {j \in 1..Len(us) : has_perm(us, us[j].name, S("sudo"))}}

\* the users who have held sudo or "*" so far, the state after the call counted
SudoersAfter(us) ==
    (IF call.made THEN call.sudoers ELSE {}) \cup SudoHolders(users) \cup SudoHolders(us)

\* the invokers whose session, as the call leaves the sessions, was installed
\* by a call at which they held sudo or "*"
VouchedAfter(inv, ss) ==
    {i \in {e.invoker : e \in ss} :
        IF i = inv /\ sessions_get(ss, i) # sessions_get(sessions, i)
          THEN has_perm(users, inv, S("sudo"))
        ELSE call.made /\ i \in call.vouched}

\* a call of Dispatcher.run, as Run, with sudoers and vouched kept up
Tracked(inv, line, salt, io) ==
    \E o \in {run(users, disk, sessions, now, inv, line, salt, io)} :
        /\ users' = o.users
        /\ disk' = o.disk
        /\ sessions' = o.sessions
        /\ now' = now
        /\ call' = [made |-> TRUE, invoker |-> inv, cmdline |-> line,
                    at |-> now, users0 |-> users, disk0 |-> disk, sessions0 |-> sessions,
                    raised |-> o.raised, result |-> o.result, acting |-> o.acting,
                    invoked |-> o.invoked, fault |-> o.fault, logged |-> o.logged,
                    sudoers |-> SudoersAfter(o.users),
                    vouched |-> VouchedAfter(inv, o.sessions)]
        /\ threads' = threads

\* the writes to the file succeed here
SessionNext ==
    \/ \E inv \in Invokers, line \in SessionSpecLines, salt \in Salts :
          Tracked(inv, line, salt, TRUE)
    \/ Tick

SessionSpec == Init /\ [][SessionNext]_vars

(***************************************************************************)
(* Vocabulary of the properties.  They speak of the latest call of run:    *)
(* call.users0, call.sessions0 and call.at are the store, the sessions and *)
(* the clock it started from, users and sessions are what it left.         *)
(***************************************************************************)
\* the tokens of the command line of the latest call
CallParts == ShlexSplit(call.cmdline).parts

\* the latest call got a line that splits into tokens
Tokenized == call.made /\ ShlexSplit(call.cmdline).ok

\* the line consists of blanks only
AllBlank(line) == \A i \in 1..Len(line) : line[i] = SP

\* a non-empty line whose first token is sudo / is not sudo
FirstIsSudo == Tokenized /\ CallParts # <<>> /\ CallParts[1] = S("sudo")

PlainCommand == Tokenized /\ CallParts # <<>> /\ CallParts[1] # S("sudo")

\* sudo -u <target> <command...>
WellFormedOneShot == FirstIsSudo /\ Len(CallParts) >= 4 /\ CallParts[2] = S("-u")

\* sudo -i -u <target> [ttl]
WellFormedSessionStart ==
    FirstIsSudo /\ Len(CallParts) >= 4 /\ CallParts[2] = S("-i") /\ CallParts[3] = S("-u")

\* user u holds permission p, or the wildcard, in store us
Holds(us, u, p) ==
    \E i \in 1..Len(us) :
        /\ us[i].name = u
        /\ \E k \in 1..Len(us[i].perms) : us[i].perms[k] = p \/ us[i].perms[k] = S("*")

\* the sessions that ss holds for invoker i
SessionsOf(ss, i) == {e.session : e \in {x \in ss : x.invoker = i}}

\* the tokens that are executed as a command: all of them, or those after
\* sudo -u <target>
ExecutedTokens ==
    IF FirstIsSudo THEN SubSeq(CallParts, 4, Len(CallParts)) ELSE CallParts

\* the line that is executed as the acting user: the whole line, or the
\* tokens after sudo -u <target> with one blank between them
ExecutedLine ==
    IF FirstIsSudo THEN Join(SubSeq(CallParts, 4, Len(CallParts))) ELSE call.cmdline

\* text t stands in text s
Contains(s, t) == \E k \in 0..(Len(s) - Len(t)) : SubSeq(s, k + 1, k + Len(t)) = t

\* the command line as it was typed: the line given to run and, for
\* sudo -u <target> <command...>, every tail of it that holds just the command
TypedCommand ==
    {call.cmdline} \cup
        {t \in {SubSeq(call.cmdline, k, Len(call.cmdline)) : k \in 1..Len(call.cmdline)} :
            /\ FirstIsSudo
            /\ ShlexSplit(t).ok
            /\ ShlexSplit(t).parts = SubSeq(CallParts, 4, Len(CallParts))}

\* the tokens that _execute_as gets out of the line it is given
LookedUp == ShlexSplit(ExecutedLine).parts

\* the latest call of run came to execute the command called name
Executes(name) ==
    /\ call.made /\ call.raised = None /\ call.acting # None
    /\ LookedUp # <<>>
    /\ LookedUp[1] = S(name)

\* the password record of a user in a store: None for a user it does not know
PasswordOf(us, username) ==
    IF HasUser(us, username)
      THEN us[CHOOSE i \in 1..Len(us) : us[i].name = username].password
    ELSE None

\* the users whose password record the latest call changed
PasswordChanged ==
    {u \in {users[i].name : i \in 1..Len(users)} :
        PasswordOf(users, u) # PasswordOf(call.users0, u)}

Refusal == <<"no", SP, "permission", SP, "to", SP, "change", SP, "others", "'", SP, "password">>

\* the latest store call was op(username, arg) and returned
Returned(op) == call.made /\ call.op = op /\ call.exc = None

\* the store call before the latest was op on the same username and
\* argument, and returned
After(op) ==
    call.prev = [op |-> op, username |-> call.username, arg |-> call.arg, exc |-> None]

\* the permissions and the password record of a user in a store
RecordOf(us, username) == {us[i] : i \in {j \in 1..Len(us) : us[j].name = username}}

\* permission strings that are asked for: those the dispatcher and the
\* handlers check, and one that nothing grants
AskedPerms ==
    {S("sudo"), S("grant"), S("admin"), S("change_others_password"), S("say"), S("view"),
     S("*"), S("nothing")}

\* the names in a store whose permission list contains "*"
WildcardHolders(us) == {us[i].name : i \in {j \in 1..Len(us) : InList(us[j].perms, S("*"))}}

\* plaintexts that are tried against a password: those that are set, the
\* default one, the empty one and one that ends like a salt
TriedPlains == Plains \cup {S("adminpass"), <<>>, <<"pw1", "5f">>}

\* usernames that are tried: those of the store and one it never knew
TriedUsers == {users[i].name : i \in 1..Len(users)} \cup StoreUsers \cup {S("erin")}

\* the permission that the registry requires for a command name: a set
\* with no element when the name is not registered or needs no permission
RequiredOf(name) ==
    {registry[i].perm[1] : i \in {k \in 1..Len(registry) :
                                   registry[k].name = name /\ registry[k].perm # None}}

DenialOf(u, p) ==
    <<"user", SP, "'">> \o u \o <<"'", SP, "lacks", SP, "'">> \o p \o <<"'", SP, "permission">>

SudoDenialOf(i) ==
    <<"invoker", SP, "'">> \o i \o <<"'", SP, "lacks", SP, "'", "sudo", "'", SP, "permission">>

\* names that are asked about and that the store may not know
Strangers == {S("ghost"), S("carol"), S("dave"), S("erin")}

\* the commands of the built-in set that hand out and take back permissions
PermissionCommands == {S("grant"), S("revoke"), S("add_perm"), S("remove_perm")}

\* the names that the store knew before the latest call or knows after it
NamesAround ==
    {users[i].name : i \in 1..Len(users)}
        \cup {call.users0[i].name : i \in 1..Len(call.users0)}

\* the users whose permissions the latest call changed
PermsChanged == {u \in NamesAround : list_perms(users, u) # list_perms(call.users0, u)}

\* the entries of the session map ss that are keyed by invoker a
Own(ss, a) == {e \in ss : e.invoker = a}

\* the latest call of run ended in a policy failure: sudo was turned down
\* with the denial of the invoker or a usage string, or the command was
\* turned down as unknown or for the permission the acting user lacks
PolicyFailure ==
    /\ call.made /\ call.raised = None
    /\ \/ /\ FirstIsSudo
          /\ call.acting = None
          /\ ~(WellFormedSessionStart /\ Holds(call.users0, call.invoker, S("sudo")))
       \/ /\ call.acting # None
          /\ call.invoked = None
          /\ LookedUp # <<>>
          /\ \/ call.result = <<"unknown", SP, "command", SP, "'">> \o LookedUp[1] \o <<"'">>
             \/ \E p \in RequiredOf(LookedUp[1]) : call.result = DenialOf(call.acting[1], p)

\* the ttl that the fifth token of the latest call stands for: its value
\* when it is written as an integer, 300 when it is not or is not there
WrittenTtlOf(parts) ==
    IF Len(parts) < 5 THEN 300
    ELSE CASE parts[5] = <<"0">> -> 0
           [] parts[5] = <<"1">> -> 1
           [] parts[5] = <<"2">> -> 2
           [] parts[5] = <<"-1">> -> 0 - 1
           [] OTHER -> 300

WrittenTtl == WrittenTtlOf(CallParts)

\* c is a call of run that installed a session: sudo -i -u <target> [ttl]
\* by an invoker who held sudo
StartsSession(c) ==
    /\ c.made
    /\ ShlexSplit(c.cmdline).ok
    /\ Len(ShlexSplit(c.cmdline).parts) >= 4
    /\ SubSeq(ShlexSplit(c.cmdline).parts, 1, 3) = <<S("sudo"), S("-i"), S("-u")>>
    /\ Holds(c.users0, c.invoker, S("sudo"))

\* d is the next call after c, by the same invoker at the same clock value,
\* with a line that has tokens and does not start with sudo; ss is what c left
PlainRightAfter(c, d, ss) ==
    /\ d.made
    /\ d.invoker = c.invoker
    /\ d.at = c.at
    /\ d.sessions0 = ss
    /\ ShlexSplit(d.cmdline).ok
    /\ ShlexSplit(d.cmdline).parts # <<>>
    /\ ShlexSplit(d.cmdline).parts[1] # S("sudo")

\* the ttl that sudo -i -u <target> [ttl] asks for
TtlOf(parts) ==
    IF Len(parts) >= 5 /\ IntOf(parts[5]).ok THEN IntOf(parts[5]).val ELSE 300

(***************************************************************************)
(* C1: on the normal, the one-shot and the session path alike, a command   *)
(* that requires permission p is handed to its handler exactly when the    *)
(* acting user holds p or "*" in the store the call started from; when the *)
(* acting user does not, run returns the denial naming the acting user and *)
(* p, no handler is invoked and the store is as before.  The invoker's own *)
(* permissions do not enter.                                               *)
(***************************************************************************)
C1_PermissionGate ==
    (call.made /\ call.raised = None /\ call.acting # None) =>
        LET u == call.acting[1]
        IN  /\ \A p \in (IF ExecutedTokens = <<>> THEN {} ELSE RequiredOf(ExecutedTokens[1])) :
                  IF Holds(call.users0, u, p)
                    THEN call.invoked # None /\ call.invoked[1].user = u
                  ELSE /\ call.invoked = None
                       /\ call.result = DenialOf(u, p)
                       /\ users = call.users0
            /\ call.invoked # None =>
                  /\ call.invoked[1].user = u
                  /\ \A i \in 1..Len(registry) :
                        (registry[i].fn = call.invoked[1].fn /\ registry[i].perm # None)
                            => Holds(call.users0, u, registry[i].perm[1])

\* alice, who holds sudo but not admin, has list_users run as bob, who holds admin
C1_Witness ==
    /\ call.made
    /\ call.invoker = S("alice")
    /\ call.cmdline = Words(<<"sudo", "-u", "bob", "list_users">>)
    /\ ~Holds(call.users0, S("alice"), S("admin"))
    /\ Holds(call.users0, S("bob"), S("admin"))
    /\ call.invoked # None
    /\ call.invoked[1].fn = "cmd_list_users"
    /\ call.invoked[1].user = S("bob")

(***************************************************************************)
(* C2: a well-formed sudo -u <target> <command...> or sudo -i -u <target>  *)
(* [ttl] of an invoker that holds neither sudo nor "*" returns the denial  *)
(* naming the invoker and sudo, invokes no handler, and leaves the         *)
(* sessions and the store as they were.                                    *)
(***************************************************************************)
C2_SudoDenied ==
    ((WellFormedOneShot \/ WellFormedSessionStart)
        /\ ~Holds(call.users0, call.invoker, S("sudo"))) =>
        /\ call.raised = None
        /\ call.result = SudoDenialOf(call.invoker)
        /\ call.invoked = None
        /\ call.acting = None
        /\ sessions = call.sessions0
        /\ users = call.users0
        /\ disk = call.disk0

C2_Witness ==
    /\ WellFormedSessionStart
    /\ ~Holds(call.users0, call.invoker, S("sudo"))
    /\ call.result = SudoDenialOf(call.invoker)

(***************************************************************************)
(* C3: a successful sudo -i -u <target> [ttl] leaves the invoker with      *)
(* exactly the session (target, now + ttl), whatever session it had        *)
(* before, returns the confirmation that states target and ttl, and        *)
(* invokes no handler; a plain command that then runs as another user runs *)
(* as the target of the one session the invoker has; no invoker ever has   *)
(* two sessions.                                                           *)
(***************************************************************************)
C3_SessionInstalled ==
    /\ \A i \in {e.invoker : e \in sessions} : Cardinality(SessionsOf(sessions, i)) = 1
    /\ (WellFormedSessionStart /\ Holds(call.users0, call.invoker, S("sudo"))) =>
          /\ SessionsOf(sessions, call.invoker)
               = {[target |-> CallParts[4], expires |-> call.at + TtlOf(CallParts)]}
          /\ call.raised = None
          /\ call.result = <<"impersonating", SP>> \o CallParts[4] \o <<SP, "for", SP>>
                               \o StrOfInt(TtlOf(CallParts)) \o <<SP, "seconds">>
          /\ call.invoked = None
          /\ call.acting = None
    /\ (PlainCommand /\ call.acting # None /\ call.acting # Some(call.invoker)) =>
          \E s \in SessionsOf(call.sessions0, call.invoker) :
              s.target = call.acting[1] /\ SessionsOf(call.sessions0, call.invoker) = {s}

\* a session as carol replaces a session as another user
C3_Witness ==
    /\ WellFormedSessionStart
    /\ Holds(call.users0, call.invoker, S("sudo"))
    /\ CallParts[4] = S("carol")
    /\ \E s \in SessionsOf(call.sessions0, call.invoker) : s.target # S("carol")
    /\ SessionsOf(sessions, call.invoker) = {[target |-> S("carol"), expires |-> call.at + 1]}
(***************************************************************************)
(* C4: while the invoker's session (target, expiresAt) is live, that is    *)
(* now < expiresAt, every non-empty command line of the invoker that does  *)
(* not start with sudo is executed as the target: the handler gets the     *)
(* target's name, a permission that the target lacks is denied in the      *)
(* target's name whatever the invoker holds, and the session stays.        *)
(***************************************************************************)
C4_LiveSessionActsAsTarget ==
    PlainCommand =>
        \A s \in SessionsOf(call.sessions0, call.invoker) :
            call.at < s.expires =>
                /\ call.raised = None
                /\ call.acting = Some(s.target)
                /\ call.invoked # None => call.invoked[1].user = s.target
                /\ \A p \in RequiredOf(CallParts[1]) :
                      ~Holds(call.users0, s.target, p) =>
                          call.invoked = None /\ call.result = DenialOf(s.target, p)
                /\ sessions = call.sessions0

\* alice holds say, her session target carol does not: say is denied
C4_Witness ==
    /\ PlainCommand
    /\ call.invoker = S("alice")
    /\ CallParts[1] = S("say")
    /\ Holds(call.users0, S("alice"), S("say"))
    /\ \E s \in SessionsOf(call.sessions0, S("alice")) :
          s.target = S("carol") /\ call.at < s.expires
    /\ call.result = DenialOf(S("carol"), S("say"))
    /\ sessions = call.sessions0

(***************************************************************************)
(* C5: a non-empty, non-sudo command of an invoker whose session has       *)
(* expired (now >= expiresAt) removes that session in the same call and is *)
(* executed as the invoker; a command runs as a session target only before *)
(* the session's expiresAt; and an invoker without a session gets one only *)
(* by a successful sudo -i of its own.                                     *)
(***************************************************************************)
C5_ExpiredSessionRemoved ==
    /\ PlainCommand =>
          \A s \in SessionsOf(call.sessions0, call.invoker) :
              call.at >= s.expires =>
                  /\ SessionsOf(sessions, call.invoker) = {}
                  /\ call.acting = Some(call.invoker)
                  /\ call.invoked # None => call.invoked[1].user = call.invoker
    /\ (PlainCommand /\ call.acting # None /\ call.acting # Some(call.invoker)) =>
          \E s \in SessionsOf(call.sessions0, call.invoker) :
              s.target = call.acting[1] /\ call.at < s.expires
    /\ call.made =>
          \A e \in sessions :
              SessionsOf(call.sessions0, e.invoker) = {} =>
                  /\ e.invoker = call.invoker
                  /\ WellFormedSessionStart
                  /\ Holds(call.users0, call.invoker, S("sudo"))
    /\ ~call.made => sessions = {}

\* whoami at the very second the session as carol expires answers alice
C5_Witness ==
    /\ PlainCommand
    /\ call.invoker = S("alice")
    /\ call.cmdline = Words(<<"whoami">>)
    /\ \E s \in SessionsOf(call.sessions0, S("alice")) :
          s.target = S("carol") /\ call.at = s.expires
    /\ call.result = <<"you", SP, "are", SP, "alice">>
    /\ SessionsOf(sessions, S("alice")) = {}

(***************************************************************************)
(* C6: a line that starts with sudo is resolved without the invoker's      *)
(* session: while the invoker has a live session, sudo -u <target> <cmd>   *)
(* is allowed or denied by the invoker's own sudo permission, not by the   *)
(* session target's, runs <cmd> as <target>, and leaves the session entry  *)
(* as it was.                                                              *)
(***************************************************************************)
C6_SudoIgnoresSession ==
    WellFormedOneShot =>
        \A s \in SessionsOf(call.sessions0, call.invoker) :
            call.at < s.expires =>
                /\ sessions = call.sessions0
                /\ IF Holds(call.users0, call.invoker, S("sudo"))
                     THEN /\ call.acting = Some(CallParts[3])
                          /\ call.invoked # None => call.invoked[1].user = CallParts[3]
                   ELSE /\ call.acting = None
                        /\ call.invoked = None
                        /\ call.result = SudoDenialOf(call.invoker)

\* alice, in a live session as bob, who may not elevate, runs whoami as carol
C6_Witness ==
    /\ WellFormedOneShot
    /\ call.invoker = S("alice")
    /\ call.cmdline = Words(<<"sudo", "-u", "carol", "whoami">>)
    /\ \E s \in SessionsOf(call.sessions0, S("alice")) :
          s.target = S("bob") /\ call.at < s.expires
    /\ ~Holds(call.users0, S("bob"), S("sudo"))
    /\ call.result = <<"you", SP, "are", SP, "carol">>
    /\ sessions = call.sessions0

(***************************************************************************)
(* C7: a session that exists is used without the sudo permission: an       *)
(* invoker that has lost sudo since its sudo -i still has its plain        *)
(* commands executed as the target while the session is live, and every    *)
(* new sudo -u or sudo -i of that invoker is denied.                       *)
(***************************************************************************)
C7_SessionNeedsNoSudo ==
    (call.made /\ ~Holds(call.users0, call.invoker, S("sudo"))) =>
        \A s \in SessionsOf(call.sessions0, call.invoker) :
            call.at < s.expires =>
                /\ PlainCommand =>
                      /\ call.acting = Some(s.target)
                      /\ call.invoked # None => call.invoked[1].user = s.target
                /\ (WellFormedOneShot \/ WellFormedSessionStart) =>
                      /\ call.result = SudoDenialOf(call.invoker)
                      /\ call.invoked = None
                      /\ sessions = call.sessions0

\* alice no longer holds sudo and still gets whoami answered as admin
C7_Witness ==
    /\ PlainCommand
    /\ call.invoker = S("alice")
    /\ ~Holds(call.users0, S("alice"), S("sudo"))
    /\ \E s \in SessionsOf(call.sessions0, S("alice")) :
          s.target = S("admin") /\ call.at < s.expires
    /\ call.result = <<"you", SP, "are", SP, "admin">>

(***************************************************************************)
(* C8: an exception raised inside a command handler, be it the TypeError   *)
(* of a call with the wrong number of arguments or the failure of a write  *)
(* of the store, does not leave run: run returns "error: " followed by the *)
(* exception's message.                                                    *)
(***************************************************************************)
C8_HandlerFaultCaught ==
    call.made =>
        /\ call.fault # None =>
              /\ call.raised = None
              /\ call.result = <<"error:", SP>> \o call.fault[1]
        /\ (call.invoked # None
              /\ (Len(call.invoked[1].args) < Arity(call.invoked[1].fn)[1]
                    \/ (Arity(call.invoked[1].fn)[2] >= 0
                          /\ Len(call.invoked[1].args) > Arity(call.invoked[1].fn)[2]))) =>
              /\ call.raised = None
              /\ call.result = <<"error:", SP>> \o TypeError(call.invoked[1].fn)
              /\ users = call.users0

\* a write of users.json fails inside add_perm
C8_Witness ==
    /\ call.made
    /\ call.invoked # None
    /\ call.invoked[1].fn = "cmd_add_perm"
    /\ call.fault = Some(OSError)
    /\ call.result = <<"error:", SP>> \o OSError
    /\ disk = call.disk0
    /\ users # call.users0

(***************************************************************************)
(* C9: for every invoker a line of no tokens, empty or all blanks, makes   *)
(* run return "no command"; no handler is invoked and the sessions, an     *)
(* expired session of the invoker included, and the store stay as they     *)
(* were.                                                                   *)
(***************************************************************************)
C9_NoCommand ==
    (call.made /\ AllBlank(call.cmdline)) =>
        /\ call.raised = None
        /\ call.result = <<"no", SP, "command">>
        /\ call.invoked = None
        /\ call.acting = None
        /\ sessions = call.sessions0
        /\ users = call.users0
        /\ disk = call.disk0

\* a line of blanks from an invoker whose session has expired
C9_Witness ==
    /\ call.made
    /\ call.cmdline = <<SP, SP>>
    /\ \E s \in SessionsOf(call.sessions0, call.invoker) : call.at >= s.expires
    /\ call.result = <<"no", SP, "command">>
    /\ sessions = call.sessions0

(***************************************************************************)
(* C10: a line that starts with sudo and is neither sudo -u <target>       *)
(* <command...> nor sudo -i -u <target> [ttl], each of four tokens at      *)
(* least, returns a usage string: that of the one-shot form for exactly    *)
(* sudo -u <target>, that of both forms for every other shape; whether the *)
(* invoker holds sudo or not, no handler is invoked, and the sessions and  *)
(* the store stay as they were.                                            *)
(***************************************************************************)
C10_SudoUsage ==
    (FirstIsSudo /\ ~WellFormedOneShot /\ ~WellFormedSessionStart) =>
        /\ call.raised = None
        /\ call.result =
              IF Len(CallParts) = 3 /\ CallParts[2] = S("-u")
                THEN <<"usage:", SP, "sudo", SP, "-u", SP, "<target>", SP, "<command...>">>
              ELSE <<"usage:", SP, "sudo", SP, "-u", SP, "<target>", SP, "<command...>",
                     SP, SP, "OR", SP, SP,
                     "sudo", SP, "-i", SP, "-u", SP, "<target>", SP, "[seconds]">>
        /\ call.invoked = None
        /\ call.acting = None
        /\ sessions = call.sessions0
        /\ users = call.users0
        /\ disk = call.disk0

\* sudo -u with nothing after it, from an invoker that holds sudo
C10_Witness ==
    /\ FirstIsSudo
    /\ call.cmdline = Words(<<"sudo", "-u">>)
    /\ Holds(call.users0, call.invoker, S("sudo"))
    /\ call.result # <<"usage:", SP, "sudo", SP, "-u", SP, "<target>", SP, "<command...>">>
    /\ call.result[1] = "usage:"

(***************************************************************************)
(* C11: a command name that is not in the registry gets the answer         *)
(* "unknown command '<name>'" on the normal, the one-shot and the session  *)
(* path, whatever the invoker and the acting user hold, nothing and "*"    *)
(* included; no permission is asked for, no handler is invoked and the     *)
(* store stays as it was.  The name is the first token of the line that is *)
(* executed as the acting user.                                            *)
(***************************************************************************)
C11_UnknownCommand ==
    (call.made /\ call.raised = None /\ call.acting # None) =>
        \A name \in {ShlexSplit(ExecutedLine).parts[k] :
                        k \in {j \in {1} : ShlexSplit(ExecutedLine).parts # <<>>}} :
            (\A i \in 1..Len(registry) : registry[i].name # name) =>
                /\ call.result = <<"unknown", SP, "command", SP, "'">> \o name \o <<"'">>
                /\ call.invoked = None
                /\ users = call.users0
                /\ disk = call.disk0

\* frobnicate asked for in a live session as admin, who holds "*"
C11_Witness ==
    /\ PlainCommand
    /\ call.cmdline = Words(<<"frobnicate">>)
    /\ call.acting = Some(S("admin"))
    /\ Holds(call.users0, S("admin"), S("frobnicate"))
    /\ ~Holds(call.users0, call.invoker, S("admin"))
    /\ call.result = <<"unknown", SP, "command", SP, "'", "frobnicate", "'">>

(***************************************************************************)
(* C12, as stated: after add_perm(u, p) has returned has_perm(u, p) is     *)
(* true, and after a remove_perm(u, p) that follows it has_perm(u, p) is   *)
(* false again.  A holder of "*" refutes the second half.                  *)
(***************************************************************************)
C12_RoundTrip ==
    /\ Returned("add_perm") => has_perm(users, call.username, call.arg)
    /\ (Returned("remove_perm") /\ After("add_perm")) =>
           ~has_perm(users, call.username, call.arg)

(***************************************************************************)
(* C12, amended: after add_perm(u, p) has returned has_perm(u, p) is true; *)
(* after a remove_perm(u, p) that has returned, p is no longer in u's list *)
(* and has_perm(u, p) is true exactly when p is not "*" and u holds "*".   *)
(***************************************************************************)
C12_RoundTripUnlessWildcard ==
    /\ Returned("add_perm") => has_perm(users, call.username, call.arg)
    /\ Returned("remove_perm") =>
           /\ ~InList(list_perms(users, call.username), call.arg)
           /\ has_perm(users, call.username, call.arg)
                  <=> (call.arg # S("*") /\ InList(list_perms(users, call.username), S("*")))

\* say given to admin and taken away again: admin still has it, through "*"
C12_Witness ==
    /\ Returned("remove_perm")
    /\ After("add_perm")
    /\ call.username = S("admin")
    /\ call.arg = S("say")
    /\ InList(list_perms(call.users0, S("admin")), S("say"))
    /\ ~InList(list_perms(users, S("admin")), S("say"))
    /\ has_perm(users, S("admin"), S("say"))

(***************************************************************************)
(* C13: a user whose permission list contains "*" has every permission:    *)
(* has_perm is true for every permission asked for, so the dispatcher's    *)
(* required-permission check and its sudo check let the user through and   *)
(* change_password lets the user change another user's password; and "*"   *)
(* stays in the list across every store call but remove_perm(u, "*").      *)
(***************************************************************************)
C13_Wildcard ==
    /\ \A u \in WildcardHolders(users) :
           /\ MayElevate(users, u)
           /\ \A p \in AskedPerms :
                  has_perm(users, u, p) /\ ~PermissionMissing(users, u, Some(p))
    /\ call.made =>
           \A u \in WildcardHolders(call.users0) :
               (u \in WildcardHolders(users)) \/
                   (call.op = "remove_perm" /\ call.username = u /\ call.arg = S("*"))

\* "*" given to bob, then say taken from bob: bob still has every permission
C13_Witness ==
    /\ call.made
    /\ call.prev = [op |-> "add_perm", username |-> S("bob"), arg |-> S("*"), exc |-> None]
    /\ Returned("remove_perm") /\ call.username = S("bob") /\ call.arg = S("say")
    /\ list_perms(users, S("bob")) = <<S("*")>>
    /\ has_perm(users, S("bob"), S("change_others_password"))
    /\ MayElevate(users, S("bob"))

(***************************************************************************)
(* C14: right after set_password(u, x) has returned check_password(u, x)   *)
(* is true and check_password(u, y) is false for every other plaintext y,  *)
(* the plaintext of an earlier set_password included; and in every state a *)
(* user without a password record and a user the store does not know fail  *)
(* check_password for every plaintext.                                     *)
(***************************************************************************)
C14_Passwords ==
    /\ Returned("set_password") =>
           /\ check_password(users, call.username, call.arg)
           /\ \A y \in TriedPlains \ {call.arg} : ~check_password(users, call.username, y)
           /\ (call.prev.op = "set_password" /\ call.prev.username = call.username
                  /\ call.prev.arg # call.arg) =>
                  ~check_password(users, call.username, call.prev.arg)
    /\ \A u \in TriedUsers :
           (\A r \in RecordOf(users, u) : r.password = None) =>
               \A y \in TriedPlains : ~check_password(users, u, y)

\* bob's password pw1 is overwritten with pw2: pw1 did authenticate, and
\* now only pw2 does
C14_Witness ==
    /\ Returned("set_password") /\ call.username = S("bob") /\ call.arg = S("pw2")
    /\ call.prev = [op |-> "set_password", username |-> S("bob"), arg |-> S("pw1"),
                    exc |-> None]
    /\ check_password(call.users0, S("bob"), S("pw1"))
    /\ check_password(users, S("bob"), S("pw2"))
    /\ ~check_password(users, S("bob"), S("pw1"))
    /\ ~check_password(users, S("dave"), S("pw2"))

(***************************************************************************)
(* C15: ensure_user, add_perm and remove_perm are idempotent: a call that  *)
(* repeats the call before it, which returned, returns too and leaves the  *)
(* store and the file as they were.  ensure_user of a user the store knows *)
(* changes nothing; add_perm and remove_perm of a user it does not know    *)
(* create the user without a password, with no permission but the one      *)
(* added, and leave the other users alone.                                 *)
(***************************************************************************)
C15_Idempotent ==
    call.made =>
        /\ (call.op \in {"ensure_user", "add_perm", "remove_perm"} /\ After(call.op)) =>
               users = call.users0 /\ disk = call.disk0 /\ call.exc = None
        /\ (call.op = "ensure_user" /\ HasUser(call.users0, call.username)) =>
               users = call.users0 /\ disk = call.disk0 /\ call.exc = None
        /\ (call.op \in {"add_perm", "remove_perm"} /\ call.exc = None
               /\ ~HasUser(call.users0, call.username)) =>
               users = Append(call.users0,
                              [name |-> call.username,
                               perms |-> IF call.op = "add_perm" THEN <<call.arg>> ELSE <<>>,
                               password |-> None])

\* say is added to dave, whom the store did not know, twice in a row
C15_Witness ==
    /\ Returned("add_perm") /\ After("add_perm")
    /\ call.username = S("dave") /\ call.arg = S("say")
    /\ RecordOf(users, S("dave")) = {[name |-> S("dave"), perms |-> <<S("say")>>, password |-> None]}
    /\ users = call.users0

(***************************************************************************)
(* C16, as stated: whenever ensure_user, set_password, add_perm or         *)
(* remove_perm has returned, the file holds what the store holds in        *)
(* memory.  The mutators change the memory before they write, so a write   *)
(* that fails leaves the change in memory only, and a later call that      *)
(* finds nothing to change returns without writing.                        *)
(***************************************************************************)
C16_Durable ==
    (call.made /\ call.op \in {"ensure_user", "set_password", "add_perm", "remove_perm"}
        /\ call.exc = None) =>
        disk = users

(***************************************************************************)
(* C17, as stated: every call of run that reaches an execution as an       *)
(* acting user, whether it ends in a denial, an unknown command, a result  *)
(* or a handler fault, writes a line to sudo_audit.log that carries the    *)
(* invoker, the acting user and the command line as it was typed (read     *)
(* generously: the line given to run or, after sudo -u <target>, the       *)
(* command as it stands in that line).  run only ever appends to the log,  *)
(* so call.logged is all it does to it.  The one-shot path logs the        *)
(* command put together again from its tokens, which is not what was typed *)
(* as soon as a token was quoted.                                          *)
(***************************************************************************)
C17_AuditCarriesCommand ==
    (call.made /\ call.acting # None) =>
        \E k \in 1..Len(call.logged) :
            /\ Contains(call.logged[k].msg, call.invoker)
            /\ Contains(call.logged[k].msg, call.acting[1])
            /\ \E t \in TypedCommand : Contains(call.logged[k].msg, t)

(***************************************************************************)
(* C19, as stated: grant and revoke require the permission grant: their    *)
(* handlers are called only for an acting user who holds grant (or "*"),   *)
(* and an acting user who does not is denied with the string that names    *)
(* grant, the store left as it was.  BotCreatorOS.__init__ registers both  *)
(* again, with admin.                                                      *)
(***************************************************************************)
C19_GrantRequiresGrant ==
    (Executes("grant") \/ Executes("revoke")) =>
        /\ call.invoked # None => Holds(call.users0, call.acting[1], S("grant"))
        /\ ~Holds(call.users0, call.acting[1], S("grant")) =>
               /\ call.result = DenialOf(call.acting[1], S("grant"))
               /\ call.invoked = None
               /\ users = call.users0

(***************************************************************************)
(* C18: a call of run changes a password record only by executing          *)
(* change_password who new as an acting user who holds admin and, when who *)
(* is somebody else, change_others_password too, and then it is who's      *)
(* record alone that changes; an acting user with admin and without        *)
(* change_others_password who names somebody else gets the refusal and the *)
(* store and the file stay as they were.                                   *)
(***************************************************************************)
C18_ChangePassword ==
    call.made =>
        /\ PasswordChanged # {} =>
               /\ Executes("change_password")
               /\ Len(LookedUp) = 3
               /\ PasswordChanged = {LookedUp[2]}
               /\ Holds(call.users0, call.acting[1], S("admin"))
               /\ \/ LookedUp[2] = call.acting[1]
                  \/ Holds(call.users0, call.acting[1], S("change_others_password"))
        /\ (/\ Executes("change_password")
            /\ Len(LookedUp) = 3
            /\ LookedUp[2] # call.acting[1]
            /\ Holds(call.users0, call.acting[1], S("admin"))
            /\ ~Holds(call.users0, call.acting[1], S("change_others_password"))) =>
               /\ call.result = Refusal
               /\ users = call.users0
               /\ disk = call.disk0

\* bob holds admin, not change_others_password, and his own password; he
\* asks for alice's password to be changed and is refused
C18_Witness ==
    /\ Executes("change_password")
    /\ call.invoker = S("bob") /\ call.acting = Some(S("bob"))
    /\ LookedUp[2] = S("alice")
    /\ Holds(call.users0, S("bob"), S("admin"))
    /\ ~Holds(call.users0, S("bob"), S("change_others_password"))
    /\ PasswordOf(call.users0, S("bob")) # None
    /\ call.result = Refusal
    /\ PasswordOf(users, S("alice")) = None

(***************************************************************************)
(* C20, as stated: calls of run made at the same time for one invoker each *)
(* behave as if the lookup of the session, its deletion when it has        *)
(* expired and the execution were one step: every call that has ended      *)
(* returned, none raised, and a call that found the session expired        *)
(* executed its line as the invoker.  Without a lock two calls that both   *)
(* read the expired session both get to del self.sessions[invoker].        *)
(***************************************************************************)
C20_AtomicSessionHandling ==
    \A t \in Threads :
        threads[t].pc = "done" =>
            /\ threads[t].raised = None
            /\ ~threads[t].live => threads[t].acting = Some(threads[t].invoker)

(***************************************************************************)
(* C21: expiry is lazy.  In every step, an invoker who has a session entry *)
(* before it and none after it is the invoker of a call of run made in     *)
(* that step, with a line that has tokens and does not start with sudo, at *)
(* a clock value at or after the entry's expiresAt.  So the clock moving   *)
(* on, calls of other invokers, empty lines and sudo lines remove nothing, *)
(* and an entry stays in the map long after it has expired.                *)
(***************************************************************************)
C21_LazyExpiry ==
    [][\A e \in sessions :
           sessions_get(sessions', e.invoker) = None =>
               /\ call'.made
               /\ call'.sessions0 = sessions
               /\ call'.at = now
               /\ call'.invoker = e.invoker
               /\ ShlexSplit(call'.cmdline).ok
               /\ ShlexSplit(call'.cmdline).parts # <<>>
               /\ ShlexSplit(call'.cmdline).parts[1] # S("sudo")
               /\ now >= e.session.expires]_vars

\* alice's session as carol expired some time ago and bob gives a command:
\* the entry was there before the call and is there after it
C21_Witness ==
    /\ PlainCommand
    /\ call.invoker = S("bob")
    /\ \E s \in SessionsOf(sessions, S("alice")) :
           /\ s.target = S("carol")
           /\ call.at > s.expires
           /\ s \in SessionsOf(call.sessions0, S("alice"))
    /\ S("alice") \in call.vouched

(***************************************************************************)
(* C22: sudo -i -u <target> [ttl] uses the value of the fifth token when   *)
(* it is an integer and 300 when it is not or is not there.  The call      *)
(* never raises; when the invoker holds sudo the session it leaves is      *)
(* (target, clock at the call + ttl), and the answer names that ttl.       *)
(***************************************************************************)
C22_TtlParsed ==
    WellFormedSessionStart =>
        /\ call.raised = None
        /\ Holds(call.users0, call.invoker, S("sudo")) =>
               /\ SessionsOf(sessions, call.invoker) =
                      {[target |-> CallParts[4], expires |-> call.at + WrittenTtl]}
               /\ \E t \in {S("300"), S("0"), S("1"), S("2"), S("-1")} :
                      /\ t = S("300") <=> WrittenTtl = 300
                      /\ t # S("300") => t = CallParts[5]
                      /\ call.result = <<"impersonating", SP>> \o CallParts[4]
                             \o <<SP, "for", SP>> \o t \o <<SP, "seconds">>

\* sudo -i -u admin abc, given when the clock has moved: 300 seconds from then
C22_Witness ==
    /\ WellFormedSessionStart
    /\ call.at > 0
    /\ Len(CallParts) = 5
    /\ CallParts[5] = S("abc")
    /\ SessionsOf(sessions, call.invoker) = {[target |-> S("admin"), expires |-> call.at + 300]}
    /\ SessionsOf(call.sessions0, call.invoker) # SessionsOf(sessions, call.invoker)

(***************************************************************************)
(* C23, as stated: sudo -u <target> t4 t5 ... hands the handler registered *)
(* under t4 the arguments t5 ..., the very tokens of the line given to     *)
(* run, tokens with blanks in them and empty tokens included.  run joins   *)
(* the tokens with blanks and _execute_as splits the result again, so a    *)
(* token with a blank in it arrives as two.                                *)
(***************************************************************************)
C23_OneShotTokens ==
    (WellFormedOneShot /\ call.invoked # None) =>
        /\ call.invoked[1].args = SubSeq(CallParts, 5, Len(CallParts))
        /\ \E i \in 1..Len(registry) :
               registry[i].name = CallParts[4] /\ registry[i].fn = call.invoked[1].fn

(***************************************************************************)
(* C24, as stated: run is total: whatever the invoker and the line, a line *)
(* that the tokenizer cannot split included, the call returns a string and *)
(* raises nothing.  shlex.split raises ValueError on an unterminated       *)
(* quote, and run calls it outside any try.                                *)
(***************************************************************************)
C24_RunIsTotal == call.made => call.raised = None

(***************************************************************************)
(* C25, as stated: the session that a successful sudo -i -u <target> [ttl] *)
(* installs is live when it is installed, whatever the ttl: a plain        *)
(* command of the same invoker that follows with the clock where it was is *)
(* executed as <target>.  With a ttl of 0 or less expiresAt is not after   *)
(* the clock, and the session is expired from the start.                   *)
(***************************************************************************)
C25_LiveWhenInstalled ==
    [][(StartsSession(call) /\ PlainRightAfter(call, call', sessions)) =>
           call'.acting = Some(CallParts[4])]_vars

(***************************************************************************)
(* C25, amended: with a ttl greater than 0 (300 when none is given or the  *)
(* token is no integer) the plain command that follows with the clock      *)
(* where it was is executed as <target> and the session stays; with a ttl  *)
(* of 0 or less it is executed as the invoker and the session is removed.  *)
(***************************************************************************)
C25_LiveWhenTtlPositive ==
    [][(StartsSession(call) /\ PlainRightAfter(call, call', sessions)) =>
           IF WrittenTtl > 0
             THEN /\ call'.acting = Some(CallParts[4])
                  /\ sessions' = sessions
           ELSE /\ call'.acting = Some(call.invoker)
                /\ sessions_get(sessions', call.invoker) = None]_vars

\* alice's whoami finds the session as bob that sudo -i -u bob 0 installed
\* at this very clock value, and is answered as alice
C25_Witness ==
    /\ PlainCommand
    /\ call.invoker = S("alice")
    /\ call.at > 0
    /\ SessionsOf(call.sessions0, S("alice")) = {[target |-> S("bob"), expires |-> call.at]}
    /\ call.acting = Some(S("alice"))
    /\ SessionsOf(sessions, S("alice")) = {}

(***************************************************************************)
(* C26: the reads of the store change nothing.  For a name that is not in  *)
(* the store has_perm and check_password are false and list_perms is       *)
(* empty.  A call of run whose acting user is not in the store leaves the  *)
(* store and the file as they were, the name is not added, and a command   *)
(* that requires a permission is denied; list_perms of an unknown name is  *)
(* answered with the empty string and changes nothing either.              *)
(***************************************************************************)
C26_ReadsChangeNothing ==
    /\ \A u \in Strangers :
           ~HasUser(users, u) =>
               /\ \A p \in AskedPerms : ~has_perm(users, u, p)
               /\ \A y \in TriedPlains : ~check_password(users, u, y)
               /\ list_perms(users, u) = <<>>
    /\ (call.made /\ call.raised = None /\ call.acting # None) =>
           /\ ~HasUser(call.users0, call.acting[1]) =>
                  /\ users = call.users0
                  /\ disk = call.disk0
                  /\ \A p \in RequiredOf(LookedUp[1]) :
                         call.result = DenialOf(call.acting[1], p) /\ call.invoked = None
           /\ (Executes("list_perms") /\ call.invoked # None
                  /\ ~HasUser(call.users0, LookedUp[2])) =>
                  call.result = <<>> /\ users = call.users0 /\ disk = call.disk0

\* sudo -u ghost list_users: ghost is denied admin and is still unknown
C26_Witness ==
    /\ Executes("list_users")
    /\ call.acting = Some(S("ghost"))
    /\ call.result = DenialOf(S("ghost"), S("admin"))
    /\ ~HasUser(users, S("ghost"))
    /\ users = call.users0

(***************************************************************************)
(* C27: elevation does not chain.  The acting user of a call is the target *)
(* named in the line for sudo -u, else the target of the invoker's own     *)
(* live session, else the invoker; the session that the acting user holds  *)
(* is not looked at.  A command that is executed as the acting user and    *)
(* whose first token is sudo is looked up in the registry as any other     *)
(* name: it is the unknown command 'sudo' and no handler is invoked.       *)
(***************************************************************************)
C27_NoChaining ==
    (call.made /\ call.raised = None /\ call.acting # None) =>
        /\ call.acting[1] =
               IF FirstIsSudo THEN CallParts[3]
               ELSE IF \E e \in call.sessions0 :
                           e.invoker = call.invoker /\ call.at < e.session.expires
                 THEN (CHOOSE e \in call.sessions0 : e.invoker = call.invoker).session.target
               ELSE call.invoker
        /\ (LookedUp # <<>> /\ LookedUp[1] = S("sudo")) =>
               /\ call.result = <<"unknown", SP, "command", SP, "'", "sudo", "'">>
               /\ call.invoked = None
               /\ users = call.users0
               /\ sessions = call.sessions0

\* alice types whoami in her session as bob while bob holds a live session
\* as carol: she is answered as bob
C27_Witness ==
    /\ call.made /\ call.invoker = S("alice") /\ call.cmdline = Words(<<"whoami">>)
    /\ \E e \in call.sessions0 :
           e.invoker = S("alice") /\ e.session.target = S("bob") /\ call.at < e.session.expires
    /\ \E f \in call.sessions0 :
           f.invoker = S("bob") /\ f.session.target = S("carol") /\ call.at < f.session.expires
    /\ call.acting = Some(S("bob"))
    /\ call.result = <<"you", SP, "are", SP, "bob">>

\* sudo -u bob sudo -u carol whoami came to the unknown command 'sudo' as bob
C27_NestedSeen ==
    /\ call.made
    /\ call.cmdline = Words(<<"sudo", "-u", "bob", "sudo", "-u", "carol", "whoami">>)
    /\ call.acting = Some(S("bob"))
    /\ call.result = <<"unknown", SP, "command", SP, "'", "sudo", "'">>

(***************************************************************************)
(* C28: a command is executed as a user other than the invoker only when   *)
(* the invoker held sudo or "*": at this call for sudo -u, or at the call  *)
(* that installed the session the invoker is in, which is still live.      *)
(* Every session in the map was installed by an invoker who held sudo or   *)
(* "*" then, and an invoker who has never held either acts as itself.      *)
(***************************************************************************)
C28_ElevationNeedsSudo ==
    call.made =>
        /\ \A e \in sessions : e.invoker \in call.vouched
        /\ (call.raised = None /\ call.acting # None) =>
               /\ call.acting[1] # call.invoker =>
                      IF FirstIsSudo
                        THEN Holds(call.users0, call.invoker, S("sudo"))
                      ELSE /\ call.invoker \in call.vouched
                           /\ \E e \in call.sessions0 :
                                  /\ e.invoker = call.invoker
                                  /\ e.session.target = call.acting[1]
                                  /\ call.at < e.session.expires
               /\ call.invoker \notin call.sudoers => call.acting[1] = call.invoker

\* bob, who was given sudo after the start, types whoami in his session as
\* carol and is answered as carol
C28_Witness ==
    /\ call.made /\ call.invoker = S("bob") /\ call.cmdline = Words(<<"whoami">>)
    /\ call.acting = Some(S("carol"))
    /\ call.invoked # None
    /\ S("bob") \in call.vouched
    /\ \A salt \in Salts : ~Holds(DefaultUsers(salt).users, S("bob"), S("sudo"))

(***************************************************************************)
(* C29: a call of run changes the permissions of a user only by invoking   *)
(* the handler of grant, revoke, add_perm or remove_perm with two          *)
(* arguments, for an acting user who held, when the call was made, the     *)
(* permission that the registry requires for that command; it is the user  *)
(* named first whose permissions change.  create_user and change_password  *)
(* change no permissions, and a user they add has none; no other command   *)
(* changes any.                                                            *)
(***************************************************************************)
C29_PermissionsGuarded ==
    call.made =>
        /\ \A u \in PermsChanged :
               /\ call.raised = None /\ call.acting # None /\ call.invoked # None
               /\ Len(LookedUp) = 3
               /\ LookedUp[1] \in PermissionCommands
               /\ u = LookedUp[2]
               /\ RequiredOf(LookedUp[1]) # {}
               /\ \A p \in RequiredOf(LookedUp[1]) : Holds(call.users0, call.acting[1], p)
        /\ (Executes("create_user") \/ Executes("change_password")) =>
               /\ PermsChanged = {}
               /\ \A u \in NamesAround :
                      ~HasUser(call.users0, u) => list_perms(users, u) = <<>>

\* bob, who was given admin, revokes his own say
C29_Witness ==
    /\ Executes("revoke")
    /\ call.invoker = S("bob")
    /\ call.acting = Some(S("bob"))
    /\ Holds(call.users0, S("bob"), S("admin"))
    /\ PermsChanged = {S("bob")}
    /\ InList(list_perms(call.users0, S("bob")), S("say"))
    /\ ~InList(list_perms(users, S("bob")), S("say"))

\* change_password added a user, who has no permissions
C29_UserAdded ==
    /\ Executes("change_password")
    /\ ~HasUser(call.users0, S("dave"))
    /\ HasUser(users, S("dave"))
    /\ list_perms(users, S("dave")) = <<>>

(***************************************************************************)
(* C30: sessions are kept per invoker.  A call run(a, line) leaves the     *)
(* entry of every other invoker as it was, the map holds one entry for an  *)
(* invoker at most, and the call would have had the same acting user and   *)
(* would have left the same entry for a had the map held a's entry alone.  *)
(***************************************************************************)
C30_SessionsPerInvoker ==
    call.made =>
        /\ \A b \in {e.invoker : e \in sessions \cup call.sessions0} :
               /\ Cardinality(Own(sessions, b)) <= 1
               /\ b # call.invoker => Own(sessions, b) = Own(call.sessions0, b)
        /\ \A salt \in Salts :
               \E o \in {run(call.users0, call.disk0, Own(call.sessions0, call.invoker),
                             call.at, call.invoker, call.cmdline, salt, TRUE)} :
                   /\ o.acting = call.acting
                   /\ o.raised = call.raised
                   /\ o.sessions = Own(sessions, call.invoker)

\* bob's call ended his expired session while alice was in a session as
\* bob: her entry is as it was
C30_Witness ==
    /\ call.made /\ call.invoker = S("bob")
    /\ Own(call.sessions0, S("bob")) # {}
    /\ Own(sessions, S("bob")) = {}
    /\ Own(sessions, S("alice")) # {}
    /\ \E e \in sessions : e.invoker = S("alice") /\ e.session.target = S("bob")
    /\ call.acting = Some(S("bob"))

(***************************************************************************)
(* C31: a call of run that ends in a policy failure leaves the store and   *)
(* the file as they were, and the one change it can make to the session    *)
(* map is to take out the invoker's own entry, which had expired.  The     *)
(* elevation itself adds no user: sudo -i -u <target> installs the session *)
(* and sudo -u <target> <command> executes the command as the target also  *)
(* for a target the store does not know, which it still does not know      *)
(* afterwards.                                                             *)
(***************************************************************************)
C31_FailuresChangeNothing ==
    (call.made /\ call.raised = None) =>
        /\ PolicyFailure =>
               /\ users = call.users0
               /\ disk = call.disk0
               /\ \/ sessions = call.sessions0
                  \/ /\ ~FirstIsSudo
                     /\ sessions = call.sessions0 \ Own(call.sessions0, call.invoker)
                     /\ \A e \in Own(call.sessions0, call.invoker) :
                            call.at >= e.session.expires
        /\ WellFormedSessionStart =>
               /\ users = call.users0
               /\ disk = call.disk0
               /\ Holds(call.users0, call.invoker, S("sudo")) =>
                      /\ \E e \in sessions :
                             e.invoker = call.invoker /\ e.session.target = CallParts[4]
                      /\ call.result = <<"impersonating", SP>> \o CallParts[4]
                             \o <<SP, "for", SP>> \o StrOfInt(WrittenTtl) \o <<SP, "seconds">>
        /\ (WellFormedOneShot /\ ~HasUser(call.users0, CallParts[3])) =>
               /\ ~HasUser(users, CallParts[3])
               /\ Holds(call.users0, call.invoker, S("sudo")) =>
                      /\ call.acting = Some(CallParts[3])
                      /\ Executes("whoami") =>
                             /\ call.result = <<"you", SP, "are", SP>> \o CallParts[3]
                             /\ users = call.users0

\* alice's frobnicate is turned down as unknown and takes her expired
\* session out of the map; the store is as it was
C31_Witness ==
    /\ PolicyFailure
    /\ call.invoker = S("alice")
    /\ call.cmdline = Words(<<"frobnicate">>)
    /\ Own(call.sessions0, S("alice")) # {}
    /\ Own(sessions, S("alice")) = {}
    /\ users = call.users0

\* sudo -u ghost whoami was answered as ghost, whom the store does not know
C31_GhostOneShot ==
    /\ Executes("whoami")
    /\ call.cmdline = Words(<<"sudo", "-u", "ghost", "whoami">>)
    /\ call.result = <<"you", SP, "are", SP, "ghost">>
    /\ ~HasUser(users, S("ghost"))

\* sudo -i -u ghost installed a session as ghost, whom the store does not know
C31_GhostSession ==
    /\ call.made
    /\ call.cmdline = Words(<<"sudo", "-i", "-u", "ghost">>)
    /\ \E e \in sessions : e.invoker = call.invoker /\ e.session.target = S("ghost")
    /\ ~HasUser(users, S("ghost"))

====
